---- MODULE Spec2Model ----
(***************************************************************************)
(* A model of main.py, the command-line wrapper around the Cisco Secure    *)
(* Client shell: find_vpn_exec, run, vpn_connected, connect_vpn,           *)
(* disconnect_vpn and main.                                                *)
(*                                                                         *)
(* Representation of Python values:                                        *)
(*   - a text (f-string result, subprocess output, getpass result) is the  *)
(*     sequence of its characters;                                         *)
(*   - a file-system path or command line is the sequence of its           *)
(*     blank-separated words, so that shlex.split and the f-string         *)
(*     f"{vpn_exec} status" act on it as they do on the Python string;     *)
(*   - None is <<>> and a present value v is <<v>>.                        *)
(***************************************************************************)
EXTENDS Naturals, Sequences, FiniteSets, TLC

\* ------------------------------------------------------------------------
\* Bounds of the model
\* ------------------------------------------------------------------------

\* Longest host / username / method / password text that is enumerated.
MaxLen == 1

\* Largest number of files that exist in the enumerated file systems.
MaxFiles == 2

\* ------------------------------------------------------------------------
\* Python values
\* ------------------------------------------------------------------------

None == <<>>

Some(v) == <<v>>

\* Python truthiness of an optional path: None and "" are falsy.
Truthy(opt) == opt # None /\ opt[1] # <<>>

\* All texts over the alphabet cs of length at most n.
RECURSIVE Texts(_, _)
Texts(cs, n) ==
    IF n = 0 THEN {<<>>}
    ELSE LET shorter == Texts(cs, n - 1)
         IN shorter \cup {Append(t, c) : t \in shorter, c \in cs}

\* needle in hay, for texts.
Contains(hay, needle) ==
    \E i \in 1..(Len(hay) + 1) :
        /\ i + Len(needle) - 1 <= Len(hay)
        /\ SubSeq(hay, i, i + Len(needle) - 1) = needle

Whitespace == {" ", "\n", "\t", "\r"}

\* str.strip(): drop leading and trailing whitespace.
RECURSIVE LStrip(_)
LStrip(t) ==
    IF t # <<>> /\ Head(t) \in Whitespace THEN LStrip(Tail(t)) ELSE t

RECURSIVE RStrip(_)
RStrip(t) ==
    IF t # <<>> /\ t[Len(t)] \in Whitespace
    THEN RStrip(SubSeq(t, 1, Len(t) - 1))
    ELSE t

Strip(t) == RStrip(LStrip(t))

\* str.split("\n"): the segments between line feeds; a text that ends with
\* a line feed has an empty last segment.
RECURSIVE SplitLines(_)
SplitLines(t) ==
    IF \A i \in 1..Len(t) : t[i] # "\n" THEN <<t>>
    ELSE LET k == CHOOSE i \in 1..Len(t) :
                      t[i] = "\n" /\ \A j \in 1..(i - 1) : t[j] # "\n"
         IN <<SubSeq(t, 1, k - 1)>> \o SplitLines(SubSeq(t, k + 1, Len(t)))

\* ------------------------------------------------------------------------
\* Text literals of the program
\* ------------------------------------------------------------------------

T_Connected == <<"C", "o", "n", "n", "e", "c", "t", "e", "d">>

T_connect_ == <<"c", "o", "n", "n", "e", "c", "t", " ">>

T_disconnect == <<"d", "i", "s", "c", "o", "n", "n", "e", "c", "t">>

T_exit == <<"e", "x", "i", "t">>

T_y == <<"y">>

T_push == <<"p", "u", "s", "h">>

NL == <<"\n">>

\* ------------------------------------------------------------------------
\* find_vpn_exec
\* ------------------------------------------------------------------------

\* The names the module's import statements bind.
Imports == {"argparse", "platform", "subprocess", "getpass", "os", "shlex", "sys"}

OsTypes == {"Darwin", "Linux", "Windows", "Other"}

DarwinCandidates ==
    << <<"/opt/cisco/secureclient/bin/vpn">>,
       <<"/Applications/Cisco/Cisco", "Secure", "Client.app/Contents/MacOS/vpn">>,
       <<"/Applications/Cisco", "AnyConnect", "Secure", "Mobility",
         "Client.app/Contents/MacOS/vpn">> >>

LinuxCandidates ==
    << <<"/opt/cisco/secureclient/bin/vpn">>,
       <<"/opt/cisco/anyconnect/bin/vpn">>,
       <<"/usr/local/bin/vpn">>,
       <<"/usr/bin/vpn">> >>

WindowsCandidates ==
    << <<"C:\\Program", "Files", "(x86)\\Cisco\\Cisco", "Secure",
         "Client\\vpncli.exe">>,
       <<"C:\\Program", "Files", "(x86)\\Cisco\\Cisco", "AnyConnect", "Secure",
         "Mobility", "Client\\vpncli.exe">>,
       <<"C:\\Program", "Files\\Cisco\\Cisco", "Secure", "Client\\vpncli.exe">>,
       <<"C:\\Program", "Files\\Cisco\\Cisco", "AnyConnect", "Secure",
         "Mobility", "Client\\vpncli.exe">> >>

Candidates(os) ==
    CASE os = "Darwin" -> DarwinCandidates
      [] os = "Linux" -> LinuxCandidates
      [] os = "Windows" -> WindowsCandidates
      [] OTHER -> <<>>

\* What the file system holds at a path: nothing, a file without the
\* execute permission, or an executable file.
FileKinds == {"absent", "noexec", "exec"}

FileKind(files, p) == IF p \in DOMAIN files THEN files[p] ELSE "absent"

\* os.path.exists(path) and os.access(path, os.X_OK)
IsExecutable(files, p) ==
    FileKind(files, p) # "absent" /\ FileKind(files, p) = "exec"

\* The candidates that pass the test of the loop, in list order.
Qualifying(os, files) ==
    SelectSeq(Candidates(os), LAMBDA p : IsExecutable(files, p))

\* shutil.which(name) on the search path sp.
Which(sp, name) == sp[name]

\* The value of find_vpn_exec(): [raised |-> the exception that leaves the
\* function or "none", path |-> the returned path].
find_vpn_exec(os, files, sp) ==
    IF Qualifying(os, files) # <<>>
    THEN [raised |-> "none", path |-> Head(Qualifying(os, files))]
    ELSE IF "shutil" \notin Imports
    THEN [raised |-> "NameError", path |-> <<>>]
    ELSE LET path_in_path == IF Which(sp, "vpn") # None
                             THEN Which(sp, "vpn")
                             ELSE Which(sp, "vpncli")
         IN IF path_in_path # None /\ path_in_path[1] # <<>>
            THEN [raised |-> "none", path |-> path_in_path[1]]
            ELSE [raised |-> "FileNotFoundError", path |-> <<>>]

\* ------------------------------------------------------------------------
\* run and vpn_connected
\* ------------------------------------------------------------------------

\* shlex (POSIX mode) on one word: a backslash outside quotes is dropped and
\* the character after it is kept.
shlex_unescape(w) ==
    CASE w = "C:\\Program" -> "C:Program"
      [] w = "(x86)\\Cisco\\Cisco" -> "(x86)CiscoCisco"
      [] w = "Files\\Cisco\\Cisco" -> "FilesCiscoCisco"
      [] w = "Client\\vpncli.exe" -> "Clientvpncli.exe"
      [] OTHER -> w

\* shlex.split(cmd): one argument per blank-separated word.
shlex_split(cmd) == [i \in 1..Len(cmd) |-> shlex_unescape(cmd[i])]

\* f"{vpn_exec} status"
StatusCmd(exe) == exe \o <<"status">>

\* What the status subprocess can print.
O_connected == <<" ", "s", "t", "a", "t", "e", ":", " ">> \o T_Connected \o NL

O_disconnected == <<"D", "i", "s", "c", "o", "n", "n", "e", "c", "t", "e", "d">>

StatusOutputs == {<<>>, O_connected, O_disconnected}

\* What can happen to subprocess.check_output(argv, text=True): the program
\* argv[1] cannot be started, or it runs, prints out and exits with rc.
Outcomes(files, argv) ==
    IF IsExecutable(files, <<argv[1]>>)
    THEN [spawned : {TRUE}, rc : {0}, out : StatusOutputs]
             \cup [spawned : {TRUE}, rc : {1}, out : {O_connected}]
    ELSE [spawned : {FALSE}, rc : {0}, out : {<<>>}]

\* run(cmd) under outcome o: CalledProcessError (a non-zero exit) is caught
\* and gives ""; any other exception leaves the function.
run(o) ==
    IF ~o.spawned THEN [raised |-> TRUE, value |-> <<>>]
    ELSE IF o.rc # 0 THEN [raised |-> FALSE, value |-> <<>>]
    ELSE [raised |-> FALSE, value |-> Strip(o.out)]

\* vpn_connected(vpn_exec) under outcome o of its subprocess.
vpn_connected(o) ==
    [raised |-> run(o).raised,
     value |-> ~run(o).raised /\ Contains(run(o).value, T_Connected)]

\* The record kept of one status probe.
ProbeRecord(exe, o) ==
    [argv |-> shlex_split(StatusCmd(exe)), spawned |-> o.spawned, rc |-> o.rc,
     out |-> o.out, raised |-> vpn_connected(o).raised,
     value |-> vpn_connected(o).value]

\* ------------------------------------------------------------------------
\* Session transcripts
\* ------------------------------------------------------------------------

\* f"connect {host}\n{username}\n{password}\n{method}\ny\nexit\n"
connect_script(host, username, password, method) ==
    T_connect_ \o host \o NL \o username \o NL \o password \o NL \o method
        \o NL \o T_y \o NL \o T_exit \o NL

\* "disconnect\nexit\n"
disconnect_script == T_disconnect \o NL \o T_exit \o NL

\* ------------------------------------------------------------------------
\* Argument parsing
\* ------------------------------------------------------------------------

Subcommands == {"connect", "disconnect", "status"}

\* An argument vector: the optional subcommand word and the options given.
NoOptions(a) ==
    a.username = None /\ a.vpn_host = None /\ a.vpn_exec = None /\ a.method = None

\* parser.parse_args(): [ok |-> accepted, ns |-> the namespace].  The
\* subparsers are added without required=True, so no subcommand is accepted
\* and leaves command = None.
EmptyNamespace ==
    [command |-> None, username |-> None, vpn_host |-> None, vpn_exec |-> None,
     method |-> None]

parse_args(a, env) ==
    LET empty == EmptyNamespace
    IN  IF a.sub = None
        THEN [ok |-> NoOptions(a), ns |-> empty]
        ELSE IF a.sub[1] \notin Subcommands
        THEN [ok |-> FALSE, ns |-> empty]
        ELSE IF a.sub[1] = "connect"
        THEN [ok |-> a.username # None /\ a.vpn_host # None,
              ns |-> [command |-> a.sub, username |-> a.username,
                      vpn_host |-> a.vpn_host, vpn_exec |-> a.vpn_exec,
                      method |-> IF a.method # None THEN a.method
                                 ELSE IF env.VPN_METHOD # None
                                 THEN env.VPN_METHOD
                                 ELSE Some(T_push)]]
        ELSE [ok |-> a.username = None /\ a.vpn_host = None /\ a.method = None,
              ns |-> [empty EXCEPT !.command = a.sub, !.vpn_exec = a.vpn_exec]]

\* ------------------------------------------------------------------------
\* One invocation of the program
\* ------------------------------------------------------------------------

VARIABLES
    os_type,      \* platform.system()
    fs,           \* the file system: path -> FileKinds
    searchPath,   \* the executable search path: name -> optional path
    environ,      \* os.environ: VPN_EXEC, VPN_METHOD
    argv,         \* sys.argv[1:]
    vpnInit,      \* whether the VPN was up when the program started
    vpnState,     \* whether the VPN is up
    pc,           \* position of main
    args,         \* the parsed namespace
    vpn_exec,     \* the resolved executable path (None before resolution)
    locatorCalls, \* number of calls of find_vpn_exec
    probes,       \* the status probes made, in order
    sessions,     \* the `<exec> -s` spawns attempted, in order
    prompts,      \* number of password prompts shown
    password,     \* the text read by getpass
    stdout,       \* lines printed on standard output
    stderr,       \* lines printed on standard error
    exit_code,    \* None while running, else the exit code
    exception     \* the exception that ended the process, or "none"

inputs == <<os_type, fs, searchPath, environ, argv, vpnInit>>

vars == <<os_type, fs, searchPath, environ, argv, vpnInit, vpnState, pc, args,
          vpn_exec, locatorCalls, probes, sessions, prompts, password, stdout,
          stderr, exit_code, exception>>

\* Paths given with --vpn-exec or in VPN_EXEC.
UserPath == <<"/usr/bin/vpn">>

WrapperPath == <<"/usr/bin/env", "vpn">>

EnvPath == <<"/opt/vpn/bin/vpn">>

ExecOptions == {None, Some(<<>>), Some(UserPath), Some(WrapperPath)}

T_host == <<"h">>

T_user == <<"u">>

T_sms == <<"s", "m", "s">>

Argvs ==
    \* accepted: no subcommand, status, disconnect, connect
    [sub : {None}, username : {None}, vpn_host : {None}, vpn_exec : {None},
     method : {None}]
    \cup
    [sub : {Some("status"), Some("disconnect")}, username : {None},
     vpn_host : {None}, vpn_exec : ExecOptions, method : {None}]
    \cup
    [sub : {Some("connect")}, username : {Some(T_user)},
     vpn_host : {Some(T_host)}, vpn_exec : ExecOptions,
     method : {None, Some(T_push)}]
    \cup
    \* rejected: unknown subcommand, unknown option, missing required option
    [sub : {Some("bogus"), Some("status"), Some("connect")},
     username : {None}, vpn_host : {Some(T_host)}, vpn_exec : {None},
     method : {None}]

\* The paths whose presence the enumerated file systems vary.
FsPaths(os) ==
    {Candidates(os)[i] : i \in 1..Len(Candidates(os))}
        \cup {UserPath, <<WrapperPath[1]>>}

FileSystems(os) ==
    {f \in [FsPaths(os) -> FileKinds] :
        Cardinality({p \in FsPaths(os) : f[p] # "absent"}) <= MaxFiles}

SearchPaths ==
    [vpn : {None, Some(<<"/home/u/bin/vpn">>)},
     vpncli : {None, Some(<<"/home/u/bin/vpncli">>)}]

\* The state of the process when main is entered.
Start ==
    /\ vpnState = vpnInit
    /\ pc = "parse"
    /\ args = EmptyNamespace
    /\ vpn_exec = None
    /\ locatorCalls = 0
    /\ probes = <<>>
    /\ sessions = <<>>
    /\ prompts = 0
    /\ password = None
    /\ stdout = <<>>
    /\ stderr = <<>>
    /\ exit_code = None
    /\ exception = "none"

Init ==
    /\ os_type \in OsTypes
    /\ fs \in FileSystems(os_type)
    /\ searchPath \in {sp \in SearchPaths : sp.vpn = None}
    /\ environ \in [VPN_EXEC : {None, Some(EnvPath)}, VPN_METHOD : {None, Some(T_sms)}]
    /\ argv \in Argvs
    /\ vpnInit \in BOOLEAN
    /\ Start

\* The process ends: out and err are printed, then it exits with code.
Finish(code, out, err, exc) ==
    /\ pc' = "done"
    /\ exit_code' = Some(code)
    /\ stdout' = stdout \o out
    /\ stderr' = stderr \o err
    /\ exception' = exc

\* An exception nobody catches leaves main: the interpreter prints the
\* traceback on standard error and exits with code 1.
Uncaught(exc) ==
    Finish(1, <<>>, <<"Traceback (most recent call last):", exc>>, exc)

\* main goes on to position next.
Goto(next) ==
    /\ pc' = next
    /\ UNCHANGED <<stdout, stderr, exit_code, exception>>

\* The exception a failed spawn of path p raises.
SpawnError(p) ==
    IF FileKind(fs, p) = "absent" THEN "FileNotFoundError" ELSE "PermissionError"

\* args = parser.parse_args(): a rejected argument vector ends the process
\* with the usage message and exit code 2.
Main_Parse ==
    /\ pc = "parse"
    /\ IF parse_args(argv, environ).ok
       THEN args' = parse_args(argv, environ).ns /\ Goto("resolve")
       ELSE /\ args' = args
            /\ Finish(2, <<>>, <<"usage: main.py", "main.py: error">>, "SystemExit")
    /\ UNCHANGED <<inputs, vpnState, vpn_exec, locatorCalls, probes, sessions,
                   prompts, password>>

\* main with VPN_EXEC as the default of --vpn-exec.
Main_Resolve_EnvDefault ==
    /\ pc = "resolve"
    /\ LET given == IF args.vpn_exec # None THEN args.vpn_exec
                    ELSE environ.VPN_EXEC
       IN  IF Truthy(given)
           THEN /\ vpn_exec' = given
                /\ locatorCalls' = locatorCalls
                /\ Goto("dispatch")
           ELSE LET r == find_vpn_exec(os_type, fs, searchPath)
                IN  /\ locatorCalls' = locatorCalls + 1
                    /\ IF r.raised = "none"
                       THEN vpn_exec' = Some(r.path) /\ Goto("dispatch")
                       ELSE IF r.raised = "FileNotFoundError"
                       THEN /\ vpn_exec' = vpn_exec
                            /\ Finish(1, <<>>,
                                   <<"Error: Could not locate Cisco Secure Client/AnyConnect executable.">>,
                                   "SystemExit")
                       ELSE vpn_exec' = vpn_exec /\ Uncaught(r.raised)
    /\ UNCHANGED <<inputs, vpnState, args, probes, sessions, prompts, password>>

\* vpn_exec = getattr(args, "vpn_exec", None); if not vpn_exec: find_vpn_exec()
Main_Resolve ==
    /\ pc = "resolve"
    /\ IF Truthy(args.vpn_exec)
       THEN /\ vpn_exec' = args.vpn_exec
            /\ locatorCalls' = locatorCalls
            /\ Goto("dispatch")
       ELSE LET r == find_vpn_exec(os_type, fs, searchPath)
            IN  /\ locatorCalls' = locatorCalls + 1
                /\ IF r.raised = "none"
                   THEN vpn_exec' = Some(r.path) /\ Goto("dispatch")
                   ELSE IF r.raised = "FileNotFoundError"
                   THEN /\ vpn_exec' = vpn_exec
                        /\ Finish(1, <<>>,
                               <<"Error: Could not locate Cisco Secure Client/AnyConnect executable.">>,
                               "SystemExit")
                   ELSE vpn_exec' = vpn_exec /\ Uncaught(r.raised)
    /\ UNCHANGED <<inputs, vpnState, args, probes, sessions, prompts, password>>

\* The if / elif chain on args.command.
Main_Dispatch ==
    /\ pc = "dispatch"
    /\ IF args.command = Some("status") THEN Goto("status")
       ELSE IF args.command = Some("connect") THEN Goto("connect_check")
       ELSE IF args.command = Some("disconnect") THEN Goto("disconnect_check")
       ELSE Uncaught("ValueError")
    /\ UNCHANGED <<inputs, vpnState, args, vpn_exec, locatorCalls, probes,
                   sessions, prompts, password>>

\* connected = vpn_connected(vpn_exec); print(...)
Main_Status ==
    /\ pc = "status"
    /\ \E o \in Outcomes(fs, shlex_split(StatusCmd(vpn_exec[1]))) :
         LET p == ProbeRecord(vpn_exec[1], o)
         IN  /\ probes' = Append(probes, p)
             /\ IF p.raised THEN Uncaught(SpawnError(<<p.argv[1]>>))
                ELSE Finish(0, <<IF p.value THEN "VPN Connected: Yes"
                                 ELSE "VPN Connected: No">>, <<>>, "none")
    /\ UNCHANGED <<inputs, vpnState, args, vpn_exec, locatorCalls, sessions,
                   prompts, password>>

\* What getpass.getpass can return.
Passwords == Texts({"p"}, MaxLen)

\* The record kept of one Popen([vpn_exec, "-s"], stdin=PIPE, text=True) and
\* of the text proc.communicate wrote to it.
SessionRecord(exe, script) ==
    [exe |-> exe, args |-> <<"-s">>, spawned |-> IsExecutable(fs, exe),
     stdin |-> IF IsExecutable(fs, exe) THEN script ELSE <<>>]

\* Popen + communicate: the client reads the script and does what it does
\* to the VPN; a program that cannot be started raises.
RunSession(script, next) ==
    /\ sessions' = Append(sessions, SessionRecord(vpn_exec[1], script))
    /\ IF IsExecutable(fs, vpn_exec[1])
       THEN vpnState' \in BOOLEAN /\ Goto(next)
       ELSE vpnState' = vpnState /\ Uncaught(SpawnError(vpn_exec[1]))

\* connect_vpn without the sys.exit(1) of the already-connected branch.
Connect_Check_NoExit ==
    /\ pc = "connect_check"
    /\ \E o \in Outcomes(fs, shlex_split(StatusCmd(vpn_exec[1]))) :
         LET p == ProbeRecord(vpn_exec[1], o)
         IN  /\ probes' = Append(probes, p)
             /\ IF p.raised THEN Uncaught(SpawnError(<<p.argv[1]>>))
                ELSE /\ pc' = "connect_prompt"
                     /\ stderr' = IF p.value
                                  THEN Append(stderr, "Error: VPN is already connected.")
                                  ELSE stderr
                     /\ UNCHANGED <<stdout, exit_code, exception>>
    /\ UNCHANGED <<inputs, vpnState, args, vpn_exec, locatorCalls, sessions,
                   prompts, password>>

\* connect_vpn: if vpn_connected(vpn_exec): print error; sys.exit(1)
Connect_Check ==
    /\ pc = "connect_check"
    /\ \E o \in Outcomes(fs, shlex_split(StatusCmd(vpn_exec[1]))) :
         LET p == ProbeRecord(vpn_exec[1], o)
         IN  /\ probes' = Append(probes, p)
             /\ IF p.raised THEN Uncaught(SpawnError(<<p.argv[1]>>))
                ELSE IF p.value
                THEN Finish(1, <<>>, <<"Error: VPN is already connected.">>,
                            "SystemExit")
                ELSE Goto("connect_prompt")
    /\ UNCHANGED <<inputs, vpnState, args, vpn_exec, locatorCalls, sessions,
                   prompts, password>>

\* connect_vpn: password = getpass.getpass("Enter VPN password: ")
Connect_Prompt ==
    /\ pc = "connect_prompt"
    /\ prompts' = prompts + 1
    /\ \E pw \in Passwords : password' = Some(pw)
    /\ Goto("connect_session")
    /\ UNCHANGED <<inputs, vpnState, args, vpn_exec, locatorCalls, probes,
                   sessions>>

\* connect_vpn: script = f"..."; proc = Popen(...); proc.communicate(script)
Connect_Session ==
    /\ pc = "connect_session"
    /\ RunSession(connect_script(args.vpn_host[1], args.username[1],
                                 password[1], args.method[1]),
                  "connect_verify")
    /\ UNCHANGED <<inputs, args, vpn_exec, locatorCalls, probes, prompts,
                   password>>

\* connect_vpn: if vpn_connected(vpn_exec): return True, else error and
\* sys.exit(1); main then prints the result line.
Connect_Verify ==
    /\ pc = "connect_verify"
    /\ \E o \in Outcomes(fs, shlex_split(StatusCmd(vpn_exec[1]))) :
         LET p == ProbeRecord(vpn_exec[1], o)
         IN  /\ probes' = Append(probes, p)
             /\ IF p.raised THEN Uncaught(SpawnError(<<p.argv[1]>>))
                ELSE IF p.value
                THEN Finish(0, <<"VPN connection successful">>, <<>>, "none")
                ELSE Finish(1, <<>>, <<"Error: VPN connection failed.">>,
                            "SystemExit")
    /\ UNCHANGED <<inputs, vpnState, args, vpn_exec, locatorCalls, sessions,
                   prompts, password>>

\* disconnect_vpn without the sys.exit(1) of the not-connected branch.
Disconnect_Check_NoExit ==
    /\ pc = "disconnect_check"
    /\ \E o \in Outcomes(fs, shlex_split(StatusCmd(vpn_exec[1]))) :
         LET p == ProbeRecord(vpn_exec[1], o)
         IN  /\ probes' = Append(probes, p)
             /\ IF p.raised THEN Uncaught(SpawnError(<<p.argv[1]>>))
                ELSE /\ pc' = "disconnect_session"
                     /\ stderr' = IF ~p.value
                                  THEN Append(stderr, "Error: VPN is not connected.")
                                  ELSE stderr
                     /\ UNCHANGED <<stdout, exit_code, exception>>
    /\ UNCHANGED <<inputs, vpnState, args, vpn_exec, locatorCalls, sessions,
                   prompts, password>>

\* disconnect_vpn: if not vpn_connected(vpn_exec): print error; sys.exit(1)
Disconnect_Check ==
    /\ pc = "disconnect_check"
    /\ \E o \in Outcomes(fs, shlex_split(StatusCmd(vpn_exec[1]))) :
         LET p == ProbeRecord(vpn_exec[1], o)
         IN  /\ probes' = Append(probes, p)
             /\ IF p.raised THEN Uncaught(SpawnError(<<p.argv[1]>>))
                ELSE IF ~p.value
                THEN Finish(1, <<>>, <<"Error: VPN is not connected.">>,
                            "SystemExit")
                ELSE Goto("disconnect_session")
    /\ UNCHANGED <<inputs, vpnState, args, vpn_exec, locatorCalls, sessions,
                   prompts, password>>

\* disconnect_vpn: proc = Popen(...); proc.communicate("disconnect\nexit\n")
Disconnect_Session ==
    /\ pc = "disconnect_session"
    /\ RunSession(disconnect_script, "disconnect_verify")
    /\ UNCHANGED <<inputs, args, vpn_exec, locatorCalls, probes, prompts,
                   password>>

\* disconnect_vpn: if not vpn_connected(vpn_exec): return True, else error
\* and sys.exit(1); main then prints the result line.
Disconnect_Verify ==
    /\ pc = "disconnect_verify"
    /\ \E o \in Outcomes(fs, shlex_split(StatusCmd(vpn_exec[1]))) :
         LET p == ProbeRecord(vpn_exec[1], o)
         IN  /\ probes' = Append(probes, p)
             /\ IF p.raised THEN Uncaught(SpawnError(<<p.argv[1]>>))
                ELSE IF ~p.value
                THEN Finish(0, <<"VPN disconnection successful">>, <<>>, "none")
                ELSE Finish(1, <<>>, <<"Error: VPN disconnection failed.">>,
                            "SystemExit")
    /\ UNCHANGED <<inputs, vpnState, args, vpn_exec, locatorCalls, sessions,
                   prompts, password>>

Next ==
    \/ Main_Parse
    \/ Main_Resolve
    \/ Main_Dispatch
    \/ Main_Status
    \/ Connect_Check
    \/ Connect_Prompt
    \/ Connect_Session
    \/ Connect_Verify
    \/ Disconnect_Check
    \/ Disconnect_Session
    \/ Disconnect_Verify

Spec == Init /\ [][Next]_vars

\* ------------------------------------------------------------------------
\* find_vpn_exec alone: every enumerated platform, file system and search
\* path, for the invocations that leave the executable to the locator.
\* ------------------------------------------------------------------------

LocatorArgvs ==
    [sub : {Some("status"), Some("disconnect")}, username : {None},
     vpn_host : {None}, vpn_exec : {None, Some(<<>>)}, method : {None}]

InitLocator ==
    /\ os_type \in OsTypes
    /\ fs \in FileSystems(os_type)
    /\ searchPath \in SearchPaths
    /\ environ = [VPN_EXEC |-> None, VPN_METHOD |-> None]
    /\ argv \in LocatorArgvs
    /\ vpnInit = FALSE
    /\ Start

NextLocator == Main_Parse \/ Main_Resolve

SpecLocator == InitLocator /\ [][NextLocator]_vars

\* ------------------------------------------------------------------------
\* The transcripts: one Linux host with the client at /usr/bin/vpn, and
\* every enumerated host, username, method and password text.
\* ------------------------------------------------------------------------

FieldTexts == Texts({"a", "\n"}, MaxLen)

ScriptArgvs ==
    [sub : {Some("connect")}, username : {Some(t) : t \in FieldTexts},
     vpn_host : {Some(t) : t \in FieldTexts}, vpn_exec : {None},
     method : {None} \cup {Some(t) : t \in FieldTexts}]
    \cup
    [sub : {Some("disconnect"), Some("status")}, username : {None},
     vpn_host : {None}, vpn_exec : {None}, method : {None}]

InitScript ==
    /\ os_type = "Linux"
    /\ fs = [p \in FsPaths("Linux") |-> IF p = UserPath THEN "exec" ELSE "absent"]
    /\ searchPath = [vpn |-> None, vpncli |-> None]
    /\ environ = [VPN_EXEC |-> None, VPN_METHOD |-> None]
    /\ argv \in ScriptArgvs
    /\ vpnInit \in BOOLEAN
    /\ Start

SpecScript == InitScript /\ [][Next]_vars

\* ------------------------------------------------------------------------
\* Vocabulary of the properties
\* ------------------------------------------------------------------------

\* The argument parser accepted the argument vector.
Accepted == parse_args(argv, environ).ok

\* The n-th status probe returned the value v (it did not raise).
Reported(n, v) ==
    Len(probes) >= n /\ ~probes[n].raised /\ probes[n].value = v

Command(c) == pc # "parse" /\ Accepted /\ args.command = Some(c)

M_AlreadyConnected == "Error: VPN is already connected."

M_NotConnected == "Error: VPN is not connected."

M_ConnectFailed == "Error: VPN connection failed."

M_DisconnectFailed == "Error: VPN disconnection failed."

M_NotFound == "Error: Could not locate Cisco Secure Client/AnyConnect executable."

\* main is about to start a subprocess on vpn_exec.
AboutToSpawn ==
    pc \in {"status", "connect_check", "connect_session", "connect_verify",
            "disconnect_check", "disconnect_session", "disconnect_verify"}

\* ------------------------------------------------------------------------
\* C1
\* ------------------------------------------------------------------------

\* C1: when connect's first status probe reports connected, the invocation
\* ends at once with the single line "Error: VPN is already connected." on
\* standard error and exit code 1; no password was prompted for, no
\* `<exec> -s` session was spawned, no second probe was made, and the VPN is
\* in the state it was in when the program started.
C1_AlreadyConnected ==
    (Command("connect") /\ Reported(1, TRUE)) =>
        /\ pc = "done"
        /\ exit_code = Some(1)
        /\ stderr = <<M_AlreadyConnected>>
        /\ stdout = <<>>
        /\ prompts = 0
        /\ password = None
        /\ sessions = <<>>
        /\ Len(probes) = 1
        /\ vpnState = vpnInit

\* connect ran while the VPN was up and its first probe said so.
C1_Witness ==
    /\ Command("connect")
    /\ Reported(1, TRUE)
    /\ vpnInit
    /\ pc = "done"

\* ------------------------------------------------------------------------
\* C2
\* ------------------------------------------------------------------------

\* C2: when disconnect's first status probe reports not connected, the
\* invocation ends at once with the single line "Error: VPN is not
\* connected." on standard error and exit code 1; no `<exec> -s` session was
\* spawned and the VPN is in the state it was in when the program started.
C2_NotConnected ==
    (Command("disconnect") /\ Reported(1, FALSE)) =>
        /\ pc = "done"
        /\ exit_code = Some(1)
        /\ stderr = <<M_NotConnected>>
        /\ stdout = <<>>
        /\ sessions = <<>>
        /\ Len(probes) = 1
        /\ vpnState = vpnInit

\* disconnect ran while the VPN was down and its first probe said so.
C2_Witness ==
    /\ Command("disconnect")
    /\ Reported(1, FALSE)
    /\ ~vpnInit
    /\ pc = "done"

\* ------------------------------------------------------------------------
\* C3
\* ------------------------------------------------------------------------

\* The end of a connect (want = TRUE) or disconnect (want = FALSE) whose
\* precondition held, as the claim describes it.
C3_End(want, okLine, failLine) ==
    /\ Len(sessions) = 1
    /\ sessions[1].spawned
    /\ Len(probes) = 2
    /\ (exit_code = Some(0) /\ stdout = <<okLine>>) <=> Reported(2, want)
    /\ ~Reported(2, want) => (exit_code = Some(1) /\ stderr = <<failLine>>)

\* C3: an invocation of connect (disconnect) whose first probe reported not
\* connected (connected) has, when it ends, run exactly one session and made
\* exactly one more probe; it ends with exit code 0 and the success line
\* exactly if that probe reported connected (not connected), and otherwise
\* with the one line ConnectFailed (DisconnectFailed) and exit code 1.
C3_SessionThenVerify ==
    /\ (pc = "done" /\ Command("connect") /\ Reported(1, FALSE)) =>
           C3_End(TRUE, "VPN connection successful", M_ConnectFailed)
    /\ (pc = "done" /\ Command("disconnect") /\ Reported(1, TRUE)) =>
           C3_End(FALSE, "VPN disconnection successful", M_DisconnectFailed)

\* ------------------------------------------------------------------------
\* C4
\* ------------------------------------------------------------------------

\* C4: every text written to a session's input is, for connect, exactly the
\* six newline-terminated lines `connect <host>`, `<username>`, `<password>`,
\* `<method>`, `y`, `exit`, and for disconnect exactly the two lines
\* `disconnect`, `exit`; at most one session is written to.
C4_Transcript ==
    /\ Len(sessions) <= 1
    /\ \A i \in 1..Len(sessions) :
         sessions[i].spawned =>
            SplitLines(sessions[i].stdin) =
                IF args.command = Some("connect")
                THEN <<T_connect_ \o args.vpn_host[1], args.username[1],
                       password[1], args.method[1], T_y, T_exit, <<>> >>
                ELSE <<T_disconnect, T_exit, <<>> >>

\* ------------------------------------------------------------------------
\* C5
\* ------------------------------------------------------------------------

\* C5: no status probe lets an exception escape, and each returns true
\* exactly if its subprocess started, exited with zero and printed a text
\* that contains "Connected".
C5_ProberTotal ==
    \A i \in 1..Len(probes) :
        /\ ~probes[i].raised
        /\ probes[i].value <=>
              (probes[i].spawned /\ probes[i].rc = 0
                 /\ Contains(probes[i].out, T_Connected))

\* ------------------------------------------------------------------------
\* C6
\* ------------------------------------------------------------------------

\* The result the claim gives find_vpn_exec.
C6_Expected ==
    IF Qualifying(os_type, fs) # <<>>
    THEN [raised |-> "none", path |-> Head(Qualifying(os_type, fs))]
    ELSE IF searchPath.vpn # None
    THEN [raised |-> "none", path |-> searchPath.vpn[1]]
    ELSE IF searchPath.vpncli # None
    THEN [raised |-> "none", path |-> searchPath.vpncli[1]]
    ELSE [raised |-> "FileNotFoundError", path |-> <<>>]

\* C6: once the locator has been called, main holds its result: the first
\* candidate of the platform that exists and is executable, else the
\* search-path location of vpn, else that of vpncli, and only when all are
\* missing the not-found error, reported as such.
C6_Locator ==
    locatorCalls = 1 =>
        /\ find_vpn_exec(os_type, fs, searchPath) = C6_Expected
        /\ IF C6_Expected.raised = "none"
           THEN vpn_exec = Some(C6_Expected.path) /\ exception = "none"
           ELSE vpn_exec = None /\ stderr = <<M_NotFound>>

\* ------------------------------------------------------------------------
\* C7
\* ------------------------------------------------------------------------

\* C7: a subcommand invoked without an executable override on a host where
\* no candidate qualifies and the search path holds neither name ends with
\* the one line "Error: Could not locate ..." on standard error and exit
\* code 1, and starts no subprocess.
C7_NotFound ==
    (/\ pc = "done"
     /\ \E c \in Subcommands : Command(c)
     /\ args.vpn_exec = None
     /\ Qualifying(os_type, fs) = <<>>
     /\ searchPath.vpn = None
     /\ searchPath.vpncli = None) =>
        /\ stderr = <<M_NotFound>>
        /\ exit_code = Some(1)
        /\ probes = <<>>
        /\ sessions = <<>>

\* ------------------------------------------------------------------------
\* C8
\* ------------------------------------------------------------------------

\* main has resolved the executable, or has ended trying to.
Resolved == pc \notin {"parse", "resolve"} /\ Accepted

\* Every subprocess so far was started from the path exe: the sessions with
\* exe as the program, the probes with the words of `<exe> status`.
RunOn(exe, words) ==
    /\ \A i \in 1..Len(sessions) :
         sessions[i].exe = exe /\ sessions[i].args = <<"-s">>
    /\ \A i \in 1..Len(probes) : probes[i].argv = words

\* C8 as claimed: for each subcommand the resolved path is the --vpn-exec
\* value when one is given (and then the locator is not called), else the
\* value of VPN_EXEC when it is set, else the locator's result; the probes
\* and sessions of an invocation under a set VPN_EXEC and without
\* --vpn-exec run on the VPN_EXEC path.
C8_EnvDefault ==
    (Resolved /\ \E c \in Subcommands : Command(c)) =>
        /\ Truthy(args.vpn_exec) =>
              vpn_exec = args.vpn_exec /\ locatorCalls = 0
        /\ (~Truthy(args.vpn_exec) /\ environ.VPN_EXEC # None
                /\ vpn_exec # None) =>
              /\ vpn_exec = environ.VPN_EXEC
              /\ RunOn(environ.VPN_EXEC[1], StatusCmd(environ.VPN_EXEC[1]))
        /\ (~Truthy(args.vpn_exec) /\ environ.VPN_EXEC = None) =>
              locatorCalls = 1

\* C8 as amended: the resolved path is the --vpn-exec value when that is a
\* non-empty text, and then the locator is never called; otherwise the
\* locator is called exactly once and the path is its result, whatever
\* VPN_EXEC holds, and when the locator raises nothing is started.  Every
\* session is spawned on the resolved path and every probe on the
\* shell-split words of `<path> status`.
C8_Precedence ==
    Resolved =>
        /\ IF Truthy(args.vpn_exec)
           THEN vpn_exec = args.vpn_exec /\ locatorCalls = 0
           ELSE /\ locatorCalls = 1
                /\ IF find_vpn_exec(os_type, fs, searchPath).raised = "none"
                   THEN vpn_exec = Some(find_vpn_exec(os_type, fs, searchPath).path)
                   ELSE vpn_exec = None /\ pc = "done"
        /\ vpn_exec = None => probes = <<>> /\ sessions = <<>>
        /\ vpn_exec # None =>
              RunOn(vpn_exec[1], shlex_split(StatusCmd(vpn_exec[1])))

\* A connect without --vpn-exec under a set VPN_EXEC that ran its session
\* and both probes on the path the locator found.
C8_Witness ==
    /\ pc = "done"
    /\ Command("connect")
    /\ args.vpn_exec = None
    /\ environ.VPN_EXEC # None
    /\ vpn_exec # None
    /\ vpn_exec # environ.VPN_EXEC
    /\ Len(sessions) = 1
    /\ sessions[1].spawned
    /\ Len(probes) = 2

\* ------------------------------------------------------------------------
\* C9
\* ------------------------------------------------------------------------

\* C9: whenever main is about to start a status probe or a session, the
\* resolved path is a file that exists and is executable.
C9_ExecutableBeforeSpawn ==
    AboutToSpawn => IsExecutable(fs, vpn_exec[1])

\* ------------------------------------------------------------------------
\* C10
\* ------------------------------------------------------------------------

\* C10: an argument vector the parser accepts never ends in the
\* unrecognized-command error, and an accepted invocation that resolved the
\* executable dispatched one of connect, disconnect, status.
C10_CommandRecognized ==
    Accepted =>
        /\ exception # "ValueError"
        /\ (pc = "done" /\ vpn_exec # None) =>
              \E c \in Subcommands : args.command = Some(c)

====
